---- MODULE Spec2Model ----
(***************************************************************************)
(* Model of the admin front end's three screens: Orders (Orders.jsx),      *)
(* Dashboard (Dashboard.jsx) and Reviews (unnamed/part_000).  Each screen  *)
(* is a React function component: its useState cells are the variables,    *)
(* every event handler, effect, timer callback and promise continuation    *)
(* is one action, and a callback that was created in an earlier render     *)
(* carries the state values of that render in its closure.                 *)
(*                                                                         *)
(* Instants are pairs [d |-> day number since 1970-01-01, ms |-> ms of the *)
(* UTC day]; a date-input string 'YYYY-MM-DD' is the tuple <<y, m, d>> and *)
(* the empty string is <<>>.  The local zone is a fixed offset tz, in      *)
(* minutes east of UTC (no daylight-saving transitions are modelled).      *)
(***************************************************************************)
EXTENDS Integers, Sequences, FiniteSets, TLC

VARIABLES
    screen,        \* which page component is mounted
    tz,            \* local zone offset of the browser, minutes east of UTC
    now,           \* the instant new Date() returns (frozen during a run)
    tracing,       \* is the issue order of the list requests recorded?
                   \* (frozen during a run; on in SpecRace alone)
    token,         \* the token prop / localStorage token ("" when absent)
    last,          \* name of the handler that ran last (history)
    outcome,       \* what that handler showed (toast) and whether it threw
    calc,          \* date-function harness: inputs and result of one call
    \* ---- Orders.jsx
    allOrders, orders, loading, startDate, endDate, statusFilter, sortOrder,
    fetching,      \* list requests awaiting their response
    overtaken,     \* when tracing, per outstanding list request, oldest
                   \* first: has the response to a later request been applied?
    arrival,       \* the list response the last step applied, if it did
    mutating,      \* status requests awaiting their response
    timers,        \* pending setTimeout callbacks, each with its closure
    \* ---- Dashboard.jsx
    dash_orders, dash_loading, dateRange, dash_startDate, dash_endDate,
    stats, chartData, statusData,
    dash_fetches,  \* list requests awaiting their response, with closure
    proc,          \* inputs of the last processData run that got past line 88
    \* ---- Reviews (unnamed/part_000)
    reviews, rev_loading, searchTerm, sortBy, rev_sortOrder,
    rev_fetching,  \* review list requests awaiting their response
    deletes        \* delete requests awaiting their response, with closure

envVars == <<screen, tz, now, tracing, token, last, outcome, calc>>
ordersVars == <<allOrders, orders, loading, startDate, endDate, statusFilter,
                sortOrder, fetching, overtaken, arrival, mutating, timers>>
dashVars == <<dash_orders, dash_loading, dateRange, dash_startDate,
              dash_endDate, stats, chartData, statusData, dash_fetches, proc>>
reviewVars == <<reviews, rev_loading, searchTerm, sortBy, rev_sortOrder,
                rev_fetching, deletes>>
vars == <<envVars, ordersVars, dashVars, reviewVars>>

-----------------------------------------------------------------------------
(* JavaScript Date                                                          *)

MsPerDay == 24 * 60 * 60 * 1000

\* Day number of the civil date y-m-d (proleptic Gregorian); linear in d, so
\* an out-of-range day rolls into the neighbouring month as MakeDay does.
DaysFromCivil(y, m, d) ==
    LET yy  == IF m <= 2 THEN y - 1 ELSE y
        era == yy \div 400
        yoe == yy - era * 400
        mp  == IF m > 2 THEN m - 3 ELSE m + 9
        doy == ((153 * mp + 2) \div 5) + d - 1
        doe == yoe * 365 + (yoe \div 4) - (yoe \div 100) + doy
    IN  era * 146097 + doe - 719468

\* Civil date <<y, m, d>> of a day number.
CivilFromDays(z) ==
    LET zz  == z + 719468
        era == zz \div 146097
        doe == zz - era * 146097
        yoe == (doe - (doe \div 1460) + (doe \div 36524) - (doe \div 146096)) \div 365
        doy == doe - (365 * yoe + (yoe \div 4) - (yoe \div 100))
        mp  == (5 * doy + 2) \div 153
        d   == doy - ((153 * mp + 2) \div 5) + 1
        m   == IF mp < 10 THEN mp + 3 ELSE mp - 9
        y   == yoe + era * 400 + (IF m <= 2 THEN 1 ELSE 0)
    IN  <<y, m, d>>

\* i shifted by delta milliseconds (|delta| below one day).
AddMs(i, delta) ==
    LET t == i.ms + delta
    IN  [d |-> i.d + (t \div MsPerDay), ms |-> t % MsPerDay]

\* a <= b, a < b on instants (Date comparison by time value).
Leq(a, b) == a.d < b.d \/ (a.d = b.d /\ a.ms <= b.ms)
Lt(a, b) == a.d < b.d \/ (a.d = b.d /\ a.ms < b.ms)

\* The local wall-clock fields of an instant, and the instant of local fields.
LocalFields(i) == AddMs(i, tz * 60000)
FromLocal(day, ms) == AddMs([d |-> day, ms |-> ms], 0 - tz * 60000)

\* new Date('YYYY-MM-DD'): a date-only string is parsed as UTC midnight.
ParseDate(s) == [d |-> DaysFromCivil(s[1], s[2], s[3]), ms |-> 0]

\* date.toISOString().split('T')[0]: the UTC calendar date of the instant.
ToISODate(i) == CivilFromDays(i.d)

\* date.setHours(h, mi, s, ms): local time of day replaced, local day kept.
SetHours(i, h, mi, s, ms) ==
    FromLocal(LocalFields(i).d, ((h * 60 + mi) * 60 + s) * 1000 + ms)

\* date.getDate(), getMonth() (0-based), getFullYear(), getDay(): local fields.
GetDate(i) == CivilFromDays(LocalFields(i).d)[3]
GetMonth(i) == CivilFromDays(LocalFields(i).d)[2] - 1
GetFullYear(i) == CivilFromDays(LocalFields(i).d)[1]
GetDay(i) == (LocalFields(i).d + 4) % 7

\* date.setDate(n): day of the local month replaced; n < 1 or past the end
\* of the month rolls over.
SetDate(i, n) ==
    LET l == LocalFields(i)
        c == CivilFromDays(l.d)
    IN  FromLocal(DaysFromCivil(c[1], c[2], 1) + n - 1, l.ms)

\* date.setMonth(m0): m0 is 0-based and may be -1; the day of month is kept
\* and rolls over when the target month is shorter.
SetMonth(i, m0) ==
    LET l == LocalFields(i)
        c == CivilFromDays(l.d)
        y == c[1] + (m0 \div 12)
        m == (m0 % 12) + 1
    IN  FromLocal(DaysFromCivil(y, m, 1) + c[3] - 1, l.ms)

\* date.setFullYear(y): Feb 29 rolls over to Mar 1 in a common year.
SetFullYear(i, y) ==
    LET l == LocalFields(i)
        c == CivilFromDays(l.d)
    IN  FromLocal(DaysFromCivil(y, c[2], 1) + c[3] - 1, l.ms)

-----------------------------------------------------------------------------
(* Records and sorting                                                      *)

statusOptions ==
    <<"Order Placed", "Packing", "Shipped", "Out for delivery", "Delivered">>

Range(s) == {s[i] : i \in DOMAIN s}

\* Array.prototype.reverse
Reverse(s) == [i \in 1..Len(s) |-> s[Len(s) + 1 - i]]

\* The comparator (a, b) => asc ? dateA - dateB : dateB - dateA, as the sign
\* of its result; any direction other than 'asc' sorts newest first.
DateCmp(a, b, dir) ==
    LET x == IF dir = "asc" THEN a.date ELSE b.date
        y == IF dir = "asc" THEN b.date ELSE a.date
    IN  IF Lt(x, y) THEN -1 ELSE IF Lt(y, x) THEN 1 ELSE 0

\* Array.prototype.sort with the date comparator: the stable sort, element i
\* lands behind every element that compares lower and every equal element
\* that stood before it.
SortByDate(s, dir) ==
    LET n == Len(s)
        rank(i) == Cardinality({j \in 1..n :
                        \/ DateCmp(s[j], s[i], dir) < 0
                        \/ (DateCmp(s[j], s[i], dir) = 0 /\ j < i)}) + 1
    IN  [k \in 1..n |-> s[CHOOSE i \in 1..n : rank(i) = k]]

-----------------------------------------------------------------------------
(* Orders.jsx: pure parts                                                   *)

\* Lines 68-72: the bounds the date filter compares against.
FilterStart(sd) == SetHours(ParseDate(sd), 0, 0, 0, 0)
FilterEnd(ed) == SetHours(ParseDate(ed), 23, 59, 59, 999)

\* applyFilters with the date filter switched on by either bound
\* (startDate || endDate): the missing bound is an Invalid Date, which no
\* order date compares with.
applyFilters_eitherBound(all, sd, ed, sf, so) ==
    LET inRange(o) == Leq(FilterStart(sd), o.date) /\ Leq(o.date, FilterEnd(ed))
        byDate == IF sd # <<>> /\ ed # <<>> THEN SelectSeq(all, inRange)
                  ELSE IF sd # <<>> \/ ed # <<>> THEN <<>>
                  ELSE all
        isStatus(o) == o.status = sf
        byStatus == IF sf # "" THEN SelectSeq(byDate, isStatus) ELSE byDate
    IN  SortByDate(byStatus, so)

\* applyFilters (lines 63-96) as a function of the values its closure holds;
\* the result is what it hands to setOrders.
applyFilters(all, sd, ed, sf, so) ==
    LET inRange(o) == Leq(FilterStart(sd), o.date) /\ Leq(o.date, FilterEnd(ed))
        byDate == IF sd # <<>> /\ ed # <<>> THEN SelectSeq(all, inRange) ELSE all
        isStatus(o) == o.status = sf
        byStatus == IF sf # "" THEN SelectSeq(byDate, isStatus) ELSE byDate
    IN  SortByDate(byStatus, so)

\* The filter part with the status filter run on the whole store instead of
\* on the date-filtered list.
filterAxes_statusFromStore(all, sd, ed, sf) ==
    LET inRange(o) == Leq(FilterStart(sd), o.date) /\ Leq(o.date, FilterEnd(ed))
        byDate == IF sd # <<>> /\ ed # <<>> THEN SelectSeq(all, inRange) ELSE all
        isStatus(o) == o.status = sf
    IN  IF sf # "" THEN SelectSeq(all, isStatus) ELSE byDate

\* The filter part of applyFilters (lines 64-83): the copy of the store after
\* the date filter and the status filter, before it is sorted.
filterAxes(all, sd, ed, sf) ==
    LET inRange(o) == Leq(FilterStart(sd), o.date) /\ Leq(o.date, FilterEnd(ed))
        byDate == IF sd # <<>> /\ ed # <<>> THEN SelectSeq(all, inRange) ELSE all
        isStatus(o) == o.status = sf
    IN  IF sf # "" THEN SelectSeq(byDate, isStatus) ELSE byDate

\* handleQuickDateFilter (lines 110-142): the two strings it stores in
\* startDate and endDate for a preset.
quickDates(filter) ==
    LET today == SetHours(now, 0, 0, 0, 0)
        endOfToday == SetHours(today, 23, 59, 59, 999)
        startDateValue ==
            CASE filter = "today" -> today
              [] filter = "yesterday" -> SetDate(today, GetDate(today) - 1)
              [] filter = "last7" -> SetDate(today, GetDate(today) - 6)
              [] filter = "last30" -> SetDate(today, GetDate(today) - 29)
              [] filter = "thisMonth" -> SetDate(today, 1)
        endDateValue ==
            IF filter = "yesterday"
            THEN SetDate(endOfToday, GetDate(today) - 1)
            ELSE endOfToday
    IN  [start |-> ToISODate(startDateValue), end |-> ToISODate(endDateValue)]

QuickFilters == {"today", "yesterday", "last7", "last30", "thisMonth"}

-----------------------------------------------------------------------------
(* Dashboard.jsx: pure parts                                                *)

\* filterOrdersByDateRange (lines 113-153) for the values its closure holds.
\* The custom branch without both bounds, and any unknown range, return the
\* argument itself.
filterOrdersByDateRange(ordersData, range, sd, ed) ==
    LET bounded == range \in {"week", "month", "year"}
                   \/ (range = "custom" /\ sd # <<>> /\ ed # <<>>)
        start == CASE range = "week" -> SetDate(now, GetDate(now) - 7)
                   [] range = "month" -> SetMonth(now, GetMonth(now) - 1)
                   [] range = "year" -> SetFullYear(now, GetFullYear(now) - 1)
                   [] OTHER -> SetHours(ParseDate(sd), 0, 0, 0, 0)
        end == IF range = "custom"
               THEN SetHours(ParseDate(ed), 23, 59, 59, 999)
               ELSE now
        inRange(o) == Leq(start, o.date) /\ Leq(o.date, end)
    IN  IF bounded THEN SelectSeq(ordersData, inRange) ELSE ordersData

\* Whether filterOrdersByDateRange builds a new array (a range with both of
\* its bounds) or hands back its argument (lines 139-147).
rangeIsBounded(range, sd, ed) ==
    range \in {"week", "month", "year"} \/ (range = "custom" /\ sd # <<>> /\ ed # <<>>)

RECURSIVE sumAmount(_)
\* reduce((sum, order) => sum + order.amount, 0)
sumAmount(s) == IF s = <<>> THEN 0 ELSE Head(s).amount + sumAmount(Tail(s))

\* Math.round(x / y * 100) for y > 0, and (x / y).toFixed(2) as a number of
\* hundredths: the nearest integer, a half rounding up.
roundPercent(x, y) == (200 * x + y) \div (2 * y)

\* The quotient cut off after two decimals instead of rounded.
toFixed2_truncated(x, y) == (100 * x) \div y

toFixed2(x, y) == (200 * x + y) \div (2 * y)

\* The stats object of processData (lines 94-106).
computeStats(filteredOrders) ==
    LET totalOrders == Len(filteredOrders)
        totalIncome == sumAmount(filteredOrders)
        notDelivered(o) == o.status # "Delivered"
        delivered(o) == o.status = "Delivered"
    IN  [totalOrders |-> totalOrders,
         totalIncome |-> totalIncome,
         avgOrderValue |-> IF totalOrders # 0 THEN toFixed2(totalIncome, totalOrders) ELSE 0,
         pendingOrders |-> Len(SelectSeq(filteredOrders, notDelivered)),
         deliveredOrders |-> Len(SelectSeq(filteredOrders, delivered))]

\* toLocaleDateString('en-US', dateFormat) for the format of lines 164-171:
\* <<weekday>> for week, <<month, day>> for month, <<month, year>> otherwise,
\* all of the local calendar day.
dateLabel(date, range) ==
    LET c == CivilFromDays(LocalFields(date).d)
    IN  CASE range = "week" -> <<GetDay(date)>>
          [] range = "month" -> <<c[2], c[3]>>
          [] OTHER -> <<c[2], c[1]>>

\* Object.keys(ordersByDate) (line 187): the distinct labels of labs, in the
\* order of their first occurrence (insertion order of the keys).
chartLabels(labs) ==
    LET firsts == {i \in DOMAIN labs : \A j \in 1..(i - 1) : labs[j] # labs[i]}
        nth(k) == CHOOSE i \in firsts : Cardinality({j \in firsts : j < i}) = k - 1
    IN  [k \in 1..Cardinality(firsts) |-> labs[nth(k)]]

\* The series built per order instead of per label: every order opens a
\* bucket of its own.
chartSeries_perOrder(sorted, labs, labels) ==
    [set |-> TRUE,
     labels |-> labs,
     orderCounts |-> [k \in DOMAIN labs |-> 1],
     incomeCounts |-> [k \in DOMAIN labs |-> sorted[k].amount]]

\* Lines 174-213: per label the number of orders that carry it and the sum
\* of their amounts; labs[i] is the label of sorted[i].
chartSeries(sorted, labs, labels) ==
    LET bucket(k) == {i \in DOMAIN sorted : labs[i] = labels[k]}
        inBucket(k) == LET hasLabel(o) == \E i \in bucket(k) : sorted[i] = o
                       IN  SelectSeq(sorted, hasLabel)
    IN  [set |-> TRUE,
         labels |-> labels,
         orderCounts |-> [k \in DOMAIN labels |-> Cardinality(bucket(k))],
         incomeCounts |-> [k \in DOMAIN labels |-> sumAmount(inBucket(k))]]

\* prepareChartData (lines 155-214): the orders sorted by date (line 161),
\* labelled by their date (line 175) and grouped by label.  Each const of
\* the function is bound once, as the one element of a singleton set.
chartOfLabelled(sorted, labs) ==
    CHOOSE chart \in {chartSeries(sorted, labs, labels) : labels \in {chartLabels(labs)}} : TRUE

chartOfSorted(sorted, range) ==
    CHOOSE chart \in {chartOfLabelled(sorted, labs) :
                        labs \in {[i \in DOMAIN sorted |-> dateLabel(sorted[i].date, range)]}} : TRUE

prepareChartData(filteredOrders, range) ==
    CHOOSE chart \in {chartOfSorted(sorted, range) :
                        sorted \in {SortByDate(filteredOrders, "asc")}} : TRUE

\* prepareStatusData (lines 216-240): one count per entry of statusOptions.
prepareStatusData(filteredOrders) ==
    [set |-> TRUE,
     data |-> [k \in DOMAIN statusOptions |->
                 LET isStatus(o) == o.status = statusOptions[k]
                 IN  Len(SelectSeq(filteredOrders, isStatus))]]


-----------------------------------------------------------------------------
(* Inputs                                                                   *)

At(y, m, d, h, mi) == [d |-> DaysFromCivil(y, m, d), ms |-> (h * 60 + mi) * 60000]
AddDays(i, n) == [d |-> i.d + n, ms |-> i.ms]

\* Browser zones (UTC-5, UTC, UTC+5:30) and values of the clock.
Zones == {0 - 300, 0, 330}
Nows == {At(2024, 3, 10, 12, 0), At(2024, 3, 31, 12, 0), At(2024, 3, 1, 2, 0)}

\* Values typed into the date inputs (harness), and into the start and end
\* date inputs of a screen.
DateInputs == {<<2024, 3, 4>>, <<2024, 3, 10>>}
StartInputs == {<<>>, <<2024, 3, 4>>}
EndInputs == {<<>>, <<2024, 3, 10>>}

\* The clock and zone (UTC) of the screen runs.
ScreenNow == At(2024, 3, 10, 12, 0)
ScreenZones == {0}

\* The local calendar day a date string names: its first and last instant.
StartOfDay(s) == FromLocal(DaysFromCivil(s[1], s[2], s[3]), 0)
EndOfDay(s) == FromLocal(DaysFromCivil(s[1], s[2], s[3]), MsPerDay - 1)

NoInstant == [d |-> 0, ms |-> 0]
NoCalc == [fn |-> "", arg |-> "", sd |-> <<>>, ed |-> <<>>, date |-> NoInstant,
           kept |-> FALSE, start |-> NoInstant, end |-> NoInstant,
           data |-> <<>>, out |-> <<>>]

Probe(date) == [id |-> 1, date |-> date, amount |-> 0, status |-> "Order Placed"]

\* Order dates around the bounds of the range [sd, ed].
RangeProbes(sd, ed) ==
    {StartOfDay(sd), AddMs(StartOfDay(sd), 0 - 1), AddMs(StartOfDay(sd), MsPerDay \div 2),
     EndOfDay(ed), AddMs(EndOfDay(ed), 1), AddMs(EndOfDay(ed), 0 - (MsPerDay \div 2))}

\* Order dates a whole number of days before the clock, and just after it.
WindowProbes ==
    {AddDays(now, 0 - k) : k \in {0, 1, 6, 7, 8, 28, 29, 30, 31, 32, 364, 365, 366, 367}}
        \cup {AddMs(now, 1)}

-----------------------------------------------------------------------------
(* Initial state: one page is mounted and its mount effects have run.      *)

Screens == {"orders", "dashboard", "reviews", "dates", "aggregates", "filters",
            "search", "sorting"}
Tokens == {"", "t1"}

NoStats == [totalOrders |-> 0, totalIncome |-> 0, avgOrderValue |-> 0,
            pendingOrders |-> 0, deliveredOrders |-> 0]
NoChart == [set |-> FALSE, labels |-> <<>>, orderCounts |-> <<>>, incomeCounts |-> <<>>]
NoStatusData == [set |-> FALSE, data |-> <<>>]
NoProc == [ran |-> FALSE, data |-> <<>>, range |-> "", sd |-> <<>>, ed |-> <<>>]

\* What a handler run leaves for the user: the react-toastify call it made
\* (toast.error, toast.success, toast.warning, or none) and whether an
\* exception left the handler uncaught.
NoOutcome == [toast |-> "none", uncaught |-> FALSE]

Notified(kind) == [toast |-> kind, uncaught |-> FALSE]

Uncaught == [toast |-> "none", uncaught |-> TRUE]

\* The last step applied no list response.
NoArrival == [body |-> <<>>, stale |-> FALSE]

Init ==
    /\ screen \in Screens
    /\ tz \in Zones
    /\ now \in Nows
    /\ token \in {"", "t1"}
    /\ last = "mount"
    /\ outcome = NoOutcome
    /\ calc = NoCalc
    \* Orders.jsx lines 10-18, and the effect of lines 171-173
    /\ allOrders = <<>>
    /\ orders = <<>>
    /\ loading = TRUE
    /\ startDate = <<>>
    /\ endDate = <<>>
    /\ statusFilter = ""
    /\ sortOrder = "desc"
    /\ fetching = IF screen = "orders" /\ token # "" THEN 1 ELSE 0
    /\ tracing \in BOOLEAN
    /\ tracing => screen = "orders"
    /\ overtaken = IF tracing /\ token # "" THEN <<FALSE>> ELSE <<>>
    /\ arrival = NoArrival
    /\ mutating = <<>>
    /\ timers = <<>>
    \* Dashboard.jsx lines 33-46, and the effect of lines 271-273
    /\ dash_orders = <<>>
    /\ dash_loading = TRUE
    /\ dateRange = "month"
    /\ dash_startDate = <<>>
    /\ dash_endDate = <<>>
    /\ stats = NoStats
    /\ chartData = NoChart
    /\ statusData = NoStatusData
    /\ dash_fetches = IF screen = "dashboard" /\ token # ""
                      THEN <<[range |-> "month", sd |-> <<>>, ed |-> <<>>]>>
                      ELSE <<>>
    /\ proc = NoProc
    \* Reviews lines 6-10, and the effect of lines 14-21
    /\ reviews = <<>>
    /\ rev_loading = TRUE
    /\ searchTerm = <<>>
    /\ sortBy = "date"
    /\ rev_sortOrder = "desc"
    /\ rev_fetching = IF screen = "reviews" /\ token # "" THEN 1 ELSE 0
    /\ deletes = <<>>

-----------------------------------------------------------------------------
(* The date functions applied to one input each                             *)

\* applyFilters on a store of one order, both bounds set.
CalcApplyFilters ==
    /\ screen = "dates"
    /\ \E sd \in DateInputs, ed \in DateInputs :
         \E date \in RangeProbes(sd, ed) :
            calc' = [NoCalc EXCEPT !.fn = "applyFilters", !.sd = sd, !.ed = ed,
                        !.date = date,
                        !.kept = (applyFilters(<<Probe(date)>>, sd, ed, "", "desc") # <<>>)]
    /\ last' = "applyFilters"
    /\ outcome' = NoOutcome
    /\ UNCHANGED <<screen, tz, now, tracing, token, ordersVars, dashVars, reviewVars>>

\* filterOrdersByDateRange on a store of one order, custom range with both
\* bounds set.
CalcCustomRange ==
    /\ screen = "dates"
    /\ \E sd \in DateInputs, ed \in DateInputs :
         \E date \in RangeProbes(sd, ed) :
            calc' = [NoCalc EXCEPT !.fn = "filterOrdersByDateRange", !.arg = "custom",
                        !.sd = sd, !.ed = ed, !.date = date,
                        !.kept = (filterOrdersByDateRange(<<Probe(date)>>, "custom", sd, ed) # <<>>)]
    /\ last' = "filterOrdersByDateRange"
    /\ outcome' = NoOutcome
    /\ UNCHANGED <<screen, tz, now, tracing, token, ordersVars, dashVars, reviewVars>>

\* filterOrdersByDateRange on a store of one order, relative range.
CalcRelativeRange ==
    /\ screen = "dates"
    /\ \E range \in {"week", "month", "year"}, date \in WindowProbes :
            calc' = [NoCalc EXCEPT !.fn = "filterOrdersByDateRange", !.arg = range,
                        !.date = date,
                        !.kept = (filterOrdersByDateRange(<<Probe(date)>>, range, <<>>, <<>>) # <<>>)]
    /\ last' = "filterOrdersByDateRange"
    /\ outcome' = NoOutcome
    /\ UNCHANGED <<screen, tz, now, tracing, token, ordersVars, dashVars, reviewVars>>

\* handleQuickDateFilter's two strings, and the bounds applyFilters derives
\* from them.
CalcQuickDates ==
    /\ screen = "dates"
    /\ \E filter \in QuickFilters :
         LET q == quickDates(filter)
         IN  calc' = [NoCalc EXCEPT !.fn = "handleQuickDateFilter", !.arg = filter,
                         !.sd = q.start, !.ed = q.end,
                         !.start = FilterStart(q.start), !.end = FilterEnd(q.end)]
    /\ last' = "handleQuickDateFilter"
    /\ outcome' = NoOutcome
    /\ UNCHANGED <<screen, tz, now, tracing, token, ordersVars, dashVars, reviewVars>>

NextDates == CalcApplyFilters \/ CalcCustomRange \/ CalcRelativeRange \/ CalcQuickDates

InitDates == Init /\ screen = "dates" /\ token = "t1"

SpecDates == InitDates /\ [][NextDates]_vars

-----------------------------------------------------------------------------
(* Claims about the date functions                                          *)

\* C5: with both bounds set an order is kept iff
\* start-of-day(start) <= order.date <= end-of-day(end), the days being the
\* local calendar days the two date strings name (orders screen and dashboard
\* custom range).
C5_DateRangeInclusive ==
    (calc.fn \in {"applyFilters", "filterOrdersByDateRange"} /\ calc.sd # <<>>)
        => (calc.kept <=> (Leq(StartOfDay(calc.sd), calc.date)
                           /\ Leq(calc.date, EndOfDay(calc.ed))))

\* The local calendar day of the clock, d days earlier, as a date string.
LocalToday(d) == CivilFromDays(LocalFields(now).d - d)
FirstOfMonth == <<LocalToday(0)[1], LocalToday(0)[2], 1>>

\* C7: each quick preset resolves to the inclusive local day range the filter
\* then uses: today = [today, today], yesterday = [today-1, today-1],
\* last7 = [today-6, today], last30 = [today-29, today],
\* thisMonth = [first of month, today], in every zone.
C7_QuickPresetRange ==
    calc.fn = "handleQuickDateFilter" =>
        LET first == CASE calc.arg = "today" -> LocalToday(0)
                       [] calc.arg = "yesterday" -> LocalToday(1)
                       [] calc.arg = "last7" -> LocalToday(6)
                       [] calc.arg = "last30" -> LocalToday(29)
                       [] calc.arg = "thisMonth" -> FirstOfMonth
            final == IF calc.arg = "yesterday" THEN LocalToday(1) ELSE LocalToday(0)
        IN  calc.start = StartOfDay(first) /\ calc.end = EndOfDay(final)

\* C8: the dashboard's relative ranges are fixed-length windows ending now:
\* week keeps exactly the orders of the last 7 days, month of the last 30
\* days, year of the last 365 days.
C8_RelativeWindow ==
    (calc.fn = "filterOrdersByDateRange" /\ calc.arg \in {"week", "month", "year"})
        => LET n == CASE calc.arg = "week" -> 7
                      [] calc.arg = "month" -> 30
                      [] calc.arg = "year" -> 365
           IN  calc.kept <=> (Leq(AddDays(now, 0 - n), calc.date) /\ Leq(calc.date, now))

-----------------------------------------------------------------------------
(* The aggregation functions applied to one input each                      *)

\* Orders of the list endpoint: one of February, two of the same instant,
\* and two of the Sundays 2024-03-03 and 2024-03-10 (the clock of the screen
\* runs is Sunday 2024-03-10 12:00).
AggOrders ==
    {[id |-> 1, date |-> At(2024, 2, 20, 10, 0), amount |-> 100, status |-> "Delivered"],
     [id |-> 2, date |-> At(2024, 3, 5, 10, 0), amount |-> 50, status |-> "Packing"],
     [id |-> 3, date |-> At(2024, 3, 5, 10, 0), amount |-> 30, status |-> "Delivered"],
     [id |-> 4, date |-> At(2024, 3, 3, 13, 0), amount |-> 20, status |-> "Shipped"],
     [id |-> 5, date |-> At(2024, 3, 10, 10, 0), amount |-> 0, status |-> "Order Placed"]}

\* Longest response body of the aggregation runs.
MaxAggLen == 3

\* Response bodies: the sequences of up to MaxAggLen different orders.
AggInputs ==
    UNION {{s \in [1..n -> AggOrders] : \A i, j \in 1..n : i # j => s[i] # s[j]}
            : n \in 0..MaxAggLen}

\* The body of processData past its first line (lines 90-110) for one
\* response body and one range: the filtered orders, the stats object and
\* the chart data.
CalcProcessData ==
    /\ screen = "aggregates"
    /\ calc = NoCalc
    /\ \E ordersData \in AggInputs, range \in {"week", "month", "year", "custom"},
          sd \in StartInputs :
         LET ed == IF sd = <<>> THEN <<>> ELSE <<2024, 3, 10>>
             filteredOrders == filterOrdersByDateRange(ordersData, range, sd, ed)
         IN  /\ range # "custom" => sd = <<>>
             /\ calc' = [NoCalc EXCEPT !.fn = "processData", !.arg = range,
                            !.sd = sd, !.ed = ed, !.data = filteredOrders,
                            !.out = [stats |-> computeStats(filteredOrders),
                                     chart |-> prepareChartData(filteredOrders, range)]]
    /\ last' = "processData"
    /\ outcome' = NoOutcome
    /\ UNCHANGED <<screen, tz, now, tracing, token, ordersVars, dashVars, reviewVars>>

NextAggregates == CalcProcessData

InitAggregates ==
    Init /\ screen = "aggregates" /\ token = "t1" /\ now = ScreenNow /\ tz \in ScreenZones

SpecAggregates == InitAggregates /\ [][NextAggregates]_vars

-----------------------------------------------------------------------------
(* Claims about the aggregation functions                                   *)

RECURSIVE AmountUpTo(_, _)
\* The sum of the amounts of the first n orders of s.
AmountUpTo(s, n) == IF n = 0 THEN 0 ELSE AmountUpTo(s, n - 1) + s[n].amount

\* h is the number of hundredths nearest to x / y (a half rounding up), y > 0.
IsHundredths(h, x, y) == (2 * y * h) - y <= 200 * x /\ 200 * x < (2 * y * h) + y

\* C11 (counts and sum): totalOrders is the number of filtered orders,
\* totalIncome the sum of their amounts, pendingOrders the number not
\* Delivered, deliveredOrders the number Delivered, and the last two add up
\* to totalOrders.
C11_CountsAndSum ==
    calc.fn = "processData" =>
        LET st == calc.out.stats
            d == calc.data
        IN  /\ st.totalOrders = Len(d)
            /\ st.totalIncome = AmountUpTo(d, Len(d))
            /\ st.pendingOrders = Cardinality({i \in DOMAIN d : d[i].status # "Delivered"})
            /\ st.deliveredOrders = Cardinality({i \in DOMAIN d : d[i].status = "Delivered"})
            /\ st.pendingOrders + st.deliveredOrders = st.totalOrders

\* C11 as amended: the counts and the sum, and avgOrderValue is
\* totalIncome / totalOrders rounded to two decimal places (held here as a
\* number of hundredths), 0 when totalOrders = 0.
C11_StatsFormulas ==
    /\ C11_CountsAndSum
    /\ calc.fn = "processData" =>
            LET st == calc.out.stats
            IN  IF st.totalOrders = 0
                THEN st.avgOrderValue = 0
                ELSE IsHundredths(st.avgOrderValue, st.totalIncome, st.totalOrders)

\* Amounts 100 (Delivered) and 50 (Packing): income 150, average 75.00,
\* one pending, one delivered.
C11_Witness ==
    /\ calc.fn = "processData"
    /\ Len(calc.data) = 2
    /\ {calc.data[1].id, calc.data[2].id} = {1, 2}
    /\ calc.out.stats = [totalOrders |-> 2, totalIncome |-> 150, avgOrderValue |-> 7500,
                          pendingOrders |-> 1, deliveredOrders |-> 1]

\* C11 as stated: the counts and the sum, and avgOrderValue is exactly
\* totalIncome / totalOrders, 0 when totalOrders = 0.
C11_StatsExactAverage ==
    /\ C11_CountsAndSum
    /\ calc.fn = "processData" =>
            LET st == calc.out.stats
            IN  IF st.totalOrders = 0
                THEN st.avgOrderValue = 0
                ELSE st.avgOrderValue * st.totalOrders = 100 * st.totalIncome

\* The orders of the filtered collection that carry label lab.
InBucket(lab) ==
    {i \in DOMAIN calc.data : dateLabel(calc.data[i].date, calc.arg) = lab}

\* C12: the labels are the distinct labels of the filtered orders, each
\* once, in the order in which the orders sorted by date first show them;
\* at every index the count series holds the number of orders with that
\* label and the income series the sum of their amounts; the three
\* sequences have the same length.
C12_BucketSeries ==
    calc.fn = "processData" =>
        LET ch == calc.out.chart
            d == calc.data
            firstSeen(lab) == CHOOSE i \in InBucket(lab) :
                                \A j \in InBucket(lab) :
                                    \/ Lt(d[i].date, d[j].date)
                                    \/ (d[i].date = d[j].date /\ i <= j)
            before(i, j) == Lt(d[i].date, d[j].date) \/ (d[i].date = d[j].date /\ i < j)
        IN  /\ Len(ch.labels) = Len(ch.orderCounts)
            /\ Len(ch.labels) = Len(ch.incomeCounts)
            /\ {ch.labels[k] : k \in DOMAIN ch.labels}
                 = {dateLabel(d[i].date, calc.arg) : i \in DOMAIN d}
            /\ \A k, l \in DOMAIN ch.labels : k # l => ch.labels[k] # ch.labels[l]
            /\ \A k, l \in DOMAIN ch.labels :
                  k < l => before(firstSeen(ch.labels[k]), firstSeen(ch.labels[l]))
            /\ \A k \in DOMAIN ch.labels :
                  /\ ch.orderCounts[k] = Cardinality(InBucket(ch.labels[k]))
                  /\ ch.incomeCounts[k] =
                        LET has(o) == dateLabel(o.date, calc.arg) = ch.labels[k]
                            mine == SelectSeq(d, has)
                        IN  AmountUpTo(mine, Len(mine))

\* Three orders in two buckets: one bucket holds two orders.
C12_Witness ==
    /\ calc.fn = "processData"
    /\ Len(calc.data) = 3
    /\ Len(calc.out.chart.labels) = 2
    /\ \E k \in 1..2 : calc.out.chart.orderCounts[k] = 2 /\ calc.out.chart.incomeCounts[k] = 80

\* C13: for every range, buckets are in chronological order: an order of an
\* earlier bucket is dated no later than any order of a later bucket.
C13_BucketsChronological ==
    calc.fn = "processData" =>
        LET ch == calc.out.chart
            d == calc.data
        IN  \A k, l \in DOMAIN ch.labels :
              k < l => \A i \in InBucket(ch.labels[k]), j \in InBucket(ch.labels[l]) :
                          Leq(d[i].date, d[j].date)

-----------------------------------------------------------------------------
(* Server data                                                              *)

OrderA == [id |-> 1, date |-> At(2024, 2, 20, 10, 0), amount |-> 100, status |-> "Delivered"]
OrderB == [id |-> 2, date |-> At(2024, 3, 5, 10, 0), amount |-> 50, status |-> "Packing"]
OrderBShipped == [OrderB EXCEPT !.status = "Shipped"]
OrderC == [id |-> 3, date |-> At(2024, 3, 5, 10, 0), amount |-> 30, status |-> "Delivered"]

\* Bodies of successful /api/order/list responses, oldest order first.
OrderResponses == {<<>>, <<OrderA, OrderB>>, <<OrderA, OrderBShipped, OrderC>>}

\* Values picked in the status select of the filter form.
StatusChoices == {"", "Delivered", "Packing"}

\* Quick presets clicked on the orders screen.
QuickChoices == {"last7"}

MaxFetches == 2
MaxDashFetches == 1
MaxDeletes == 2
MaxMutations == 1
MaxTimers == 1

-----------------------------------------------------------------------------
(* The filter of the orders screen applied to one input each                *)

\* The filter part of applyFilters on one store with one set of criteria:
\* both axes at once, each axis alone, and one axis after the other; and
\* applyFilters itself in one direction.
CalcFilterAxes ==
    /\ screen = "filters"
    /\ calc = NoCalc
    /\ \E all \in AggInputs, sd \in StartInputs, ed \in EndInputs,
          sf \in StatusChoices, so \in {"asc", "desc"} :
         calc' = [NoCalc EXCEPT !.fn = "filterAxes", !.arg = sf, !.sd = sd, !.ed = ed,
                    !.data = all,
                    !.out = [both |-> filterAxes(all, sd, ed, sf),
                             dateOnly |-> filterAxes(all, sd, ed, ""),
                             statusOnly |-> filterAxes(all, <<>>, <<>>, sf),
                             dateThenStatus |->
                                filterAxes(filterAxes(all, sd, ed, ""), <<>>, <<>>, sf),
                             statusThenDate |->
                                filterAxes(filterAxes(all, <<>>, <<>>, sf), sd, ed, ""),
                             sortOrder |-> so,
                             published |-> applyFilters(all, sd, ed, sf, so)]]
    /\ last' = "filterAxes"
    /\ outcome' = NoOutcome
    /\ UNCHANGED <<screen, tz, now, tracing, token, ordersVars, dashVars, reviewVars>>

NextFilters == CalcFilterAxes

InitFilters ==
    Init /\ screen = "filters" /\ token = "t1" /\ now = ScreenNow /\ tz \in ScreenZones

SpecFilters == InitFilters /\ [][NextFilters]_vars

\* Position of the order with the given id in s.
PositionOf(s, id) == CHOOSE i \in DOMAIN s : s[i].id = id

\* r holds orders of s only, each at most once, in the order they have in s.
IsSubsequenceOf(r, s) ==
    /\ \A k \in DOMAIN r : \E i \in DOMAIN s : s[i] = r[k]
    /\ \A k, l \in DOMAIN r : k < l => PositionOf(s, r[k].id) < PositionOf(s, r[l].id)

\* C14: filtering by both axes at once equals filtering by date then by
\* status and by status then by date; the status axis keeps exactly the
\* orders whose status is the chosen string (all of them for the empty
\* string); the filtered list keeps the relative order of the store; and
\* the published list is that filtered list, sorted.
C14_AxesCompose ==
    calc.fn = "filterAxes" =>
        LET o == calc.out
            all == calc.data
        IN  /\ o.both = o.dateThenStatus
            /\ o.both = o.statusThenDate
            /\ {o.statusOnly[k] : k \in DOMAIN o.statusOnly}
                 = {all[i] : i \in {j \in DOMAIN all : calc.arg = "" \/ all[j].status = calc.arg}}
            /\ {o.both[k] : k \in DOMAIN o.both}
                 = {o.dateOnly[k] : k \in DOMAIN o.dateOnly}
                      \cap {o.statusOnly[k] : k \in DOMAIN o.statusOnly}
            /\ IsSubsequenceOf(o.both, all)
            /\ IsSubsequenceOf(o.dateOnly, all)
            /\ IsSubsequenceOf(o.statusOnly, all)
            /\ o.published = SortByDate(o.both, o.sortOrder)

\* Both axes are active and each of them drops an order the other keeps.
C14_Witness ==
    /\ calc.fn = "filterAxes"
    /\ calc.arg # ""
    /\ calc.sd # <<>>
    /\ calc.ed # <<>>
    /\ Len(calc.out.both) > 0
    /\ Len(calc.out.both) < Len(calc.out.dateOnly)
    /\ Len(calc.out.both) < Len(calc.out.statusOnly)

-----------------------------------------------------------------------------
(* Orders.jsx: handlers                                                     *)

notOrders == <<screen, tz, now, tracing, calc, dashVars, reviewVars>>

\* An input event can be dispatched: the operator's clicks and key strokes
\* are milliseconds apart, so a zero-delay timer armed by the previous one
\* has fired; responses of the network may still arrive ahead of the timer.
userInput == screen = "orders" /\ timers = <<>>

\* fetchAllOrders up to its await (lines 29-36), run with token value t:
\* nothing without a token, else loading is set and the request leaves.
fetchAllOrders(t) ==
    IF t = ""
    THEN UNCHANGED <<loading, fetching, overtaken>>
    ELSE /\ loading' = TRUE
         /\ fetching' = fetching + 1
         /\ overtaken' = IF tracing THEN Append(overtaken, FALSE) ELSE overtaken

RemoveAt(s, i) == [k \in 1..(Len(s) - 1) |-> IF k < i THEN s[k] ELSE s[k + 1]]

\* The outstanding list request a response belongs to, counted from the
\* oldest: any of them (not told apart unless tracing).
Answered == IF tracing THEN DOMAIN overtaken ELSE {1}

\* Was the i-th oldest request overtaken before its response came?
Stale(i) == tracing /\ overtaken[i]

\* The outstanding list requests once the response to the i-th oldest has
\* been applied: those issued before it have been overtaken.
Overtake(flags, i) ==
    IF tracing
    THEN [k \in 1..(Len(flags) - 1) |-> IF k < i THEN TRUE ELSE flags[k + 1]]
    ELSE flags

\* The outstanding list requests once the i-th oldest has failed.
Drop(flags, i) == IF tracing THEN RemoveAt(flags, i) ELSE flags

\* The token prop changes and the effect of lines 171-173 runs.
tokenChanges ==
    /\ userInput
    /\ fetching < MaxFetches
    /\ \E t \in Tokens \ {token} :
         /\ token' = t
         /\ fetchAllOrders(t)
    /\ last' = "tokenChanges"
    /\ outcome' = NoOutcome
    /\ arrival' = NoArrival
    /\ UNCHANGED <<allOrders, orders, startDate, endDate, statusFilter, sortOrder,
                   mutating, timers, notOrders>>

\* A screen that would drop the response to a request that was overtaken.
fetchAllOrdersSuccess_dropsStale ==
    /\ screen = "orders"
    /\ fetching > 0
    /\ \E body \in OrderResponses, i \in Answered :
         /\ allOrders' = IF Stale(i) THEN allOrders ELSE Reverse(body)
         /\ orders' = IF Stale(i) THEN orders ELSE Reverse(body)
         /\ overtaken' = Overtake(overtaken, i)
         /\ arrival' = [body |-> body, stale |-> Stale(i)]
    /\ loading' = FALSE
    /\ fetching' = fetching - 1
    /\ last' = "fetchAllOrdersSuccess"
    /\ outcome' = NoOutcome
    /\ UNCHANGED <<token, startDate, endDate, statusFilter, sortOrder, mutating,
                   timers, notOrders>>

\* A list response with success = true (lines 37-40, 46-47): the body is
\* reversed in place and becomes both the store and the displayed list.
\* The continuation belongs to any of the outstanding requests: nothing in
\* lines 29-49 tells them apart, cancels one or orders their responses.
fetchAllOrdersSuccess ==
    /\ screen = "orders"
    /\ fetching > 0
    /\ \E body \in OrderResponses, i \in Answered :
         /\ allOrders' = Reverse(body)
         /\ orders' = Reverse(body)
         /\ overtaken' = Overtake(overtaken, i)
         /\ arrival' = [body |-> body, stale |-> Stale(i)]
    /\ loading' = FALSE
    /\ fetching' = fetching - 1
    /\ last' = "fetchAllOrdersSuccess"
    /\ outcome' = NoOutcome
    /\ UNCHANGED <<token, startDate, endDate, statusFilter, sortOrder, mutating,
                   timers, notOrders>>

\* A failure that would fall back to an empty screen.
fetchAllOrdersFailure_clearsList ==
    /\ screen = "orders"
    /\ fetching > 0
    /\ allOrders' = <<>>
    /\ orders' = <<>>
    /\ \E i \in Answered : overtaken' = Drop(overtaken, i)
    /\ loading' = FALSE
    /\ fetching' = fetching - 1
    /\ last' = "fetchAllOrdersFailure"
    /\ outcome' = Notified("error")
    /\ arrival' = NoArrival
    /\ UNCHANGED <<token, startDate, endDate, statusFilter, sortOrder, mutating,
                   timers, notOrders>>

\* A list response with success = false, or a rejected request (lines 41-47).
fetchAllOrdersFailure ==
    /\ screen = "orders"
    /\ fetching > 0
    /\ \E i \in Answered : overtaken' = Drop(overtaken, i)
    /\ loading' = FALSE
    /\ fetching' = fetching - 1
    /\ last' = "fetchAllOrdersFailure"
    /\ outcome' = Notified("error")
    /\ arrival' = NoArrival
    /\ UNCHANGED <<token, allOrders, orders, startDate, endDate, statusFilter,
                   sortOrder, mutating, timers, notOrders>>

\* The status select of a displayed order changes (lines 51-53, 399): the
\* request leaves; the continuation keeps the token of this render.
statusHandler ==
    /\ userInput
    /\ ~loading
    /\ Len(orders) > 0
    /\ Len(mutating) < MaxMutations
    /\ mutating' = Append(mutating, token)
    /\ last' = "statusHandler"
    /\ outcome' = NoOutcome
    /\ arrival' = NoArrival
    /\ UNCHANGED overtaken
    /\ UNCHANGED <<token, allOrders, orders, loading, startDate, endDate,
                   statusFilter, sortOrder, fetching, timers, notOrders>>

\* A successful mutation that would not reload the list.
statusHandlerSuccess_noRefetch ==
    /\ screen = "orders"
    /\ fetching < MaxFetches
    /\ \E i \in DOMAIN mutating :
         /\ mutating[i] # ""
         /\ mutating' = RemoveAt(mutating, i)
    /\ last' = "statusHandlerSuccess"
    /\ outcome' = NoOutcome
    /\ arrival' = NoArrival
    /\ UNCHANGED <<token, allOrders, orders, loading, fetching, overtaken,
                   startDate, endDate, statusFilter, sortOrder, timers, notOrders>>

\* The status response says success (lines 54-56): a full refetch starts.
\* /api/order/status is an admin route: a request that carries no token is
\* not answered with success.
statusHandlerSuccess ==
    /\ screen = "orders"
    /\ fetching < MaxFetches
    /\ \E i \in DOMAIN mutating :
         /\ mutating[i] # ""
         /\ fetchAllOrders(mutating[i])
         /\ mutating' = RemoveAt(mutating, i)
    /\ last' = "statusHandlerSuccess"
    /\ outcome' = NoOutcome
    /\ arrival' = NoArrival
    /\ UNCHANGED <<token, allOrders, orders, startDate, endDate, statusFilter,
                   sortOrder, timers, notOrders>>

\* The status response says success = false (line 54): the if has no else
\* branch, so no state is written and no toast is raised.
statusHandlerFailure ==
    /\ screen = "orders"
    /\ \E i \in DOMAIN mutating : mutating' = RemoveAt(mutating, i)
    /\ last' = "statusHandlerFailure"
    /\ outcome' = NoOutcome
    /\ arrival' = NoArrival
    /\ UNCHANGED overtaken
    /\ UNCHANGED <<token, allOrders, orders, loading, startDate, endDate,
                   statusFilter, sortOrder, fetching, timers, notOrders>>

\* The status request is rejected (lines 57-60).  The catch block evaluates
\* response.data.message, but response is declared with const inside the try
\* block and is not in scope: a ReferenceError is thrown before toast.error
\* is called, and it leaves the async handler as a rejected promise.
statusHandlerRejected ==
    /\ screen = "orders"
    /\ \E i \in DOMAIN mutating : mutating' = RemoveAt(mutating, i)
    /\ last' = "statusHandlerRejected"
    /\ outcome' = Uncaught
    /\ arrival' = NoArrival
    /\ UNCHANGED overtaken
    /\ UNCHANGED <<token, allOrders, orders, loading, startDate, endDate,
                   statusFilter, sortOrder, fetching, timers, notOrders>>

\* onChange of the start date, end date and status inputs (lines 277, 288,
\* 298): the state cell alone is written.
setStartDate ==
    /\ userInput
    /\ \E v \in StartInputs \ {startDate} : startDate' = v
    /\ last' = "setStartDate"
    /\ outcome' = NoOutcome
    /\ arrival' = NoArrival
    /\ UNCHANGED overtaken
    /\ UNCHANGED <<token, allOrders, orders, loading, endDate, statusFilter,
                   sortOrder, fetching, mutating, timers, notOrders>>

setEndDate ==
    /\ userInput
    /\ \E v \in EndInputs \ {endDate} : endDate' = v
    /\ last' = "setEndDate"
    /\ outcome' = NoOutcome
    /\ arrival' = NoArrival
    /\ UNCHANGED overtaken
    /\ UNCHANGED <<token, allOrders, orders, loading, startDate, statusFilter,
                   sortOrder, fetching, mutating, timers, notOrders>>

setStatusFilter ==
    /\ userInput
    /\ \E v \in StatusChoices \ {statusFilter} : statusFilter' = v
    /\ last' = "setStatusFilter"
    /\ outcome' = NoOutcome
    /\ arrival' = NoArrival
    /\ UNCHANGED overtaken
    /\ UNCHANGED <<token, allOrders, orders, loading, startDate, endDate,
                   sortOrder, fetching, mutating, timers, notOrders>>

\* The Apply Filters button (line 319): applyFilters of the current render.
applyFiltersClick ==
    /\ userInput
    /\ orders' = applyFilters(allOrders, startDate, endDate, statusFilter, sortOrder)
    /\ last' = "applyFilters"
    /\ outcome' = NoOutcome
    /\ arrival' = NoArrival
    /\ UNCHANGED overtaken
    /\ UNCHANGED <<token, allOrders, loading, startDate, endDate, statusFilter,
                   sortOrder, fetching, mutating, timers, notOrders>>

\* resetFilters (lines 98-107).
resetFilters ==
    /\ userInput
    /\ startDate' = <<>>
    /\ endDate' = <<>>
    /\ statusFilter' = ""
    /\ orders' = SortByDate(allOrders, sortOrder)
    /\ last' = "resetFilters"
    /\ outcome' = NoOutcome
    /\ arrival' = NoArrival
    /\ UNCHANGED overtaken
    /\ UNCHANGED <<token, allOrders, loading, sortOrder, fetching, mutating,
                   timers, notOrders>>

\* A status-summary card (lines 180, 196-199), shown once a non-empty store
\* is loaded: setStatusFilter(status), then applyFilters of the render the
\* card belongs to, whose statusFilter is the one before the click.
statusCardClick ==
    /\ userInput
    /\ ~loading
    /\ Len(allOrders) > 0
    /\ \E status \in Range(statusOptions) \cap StatusChoices : statusFilter' = status
    /\ orders' = applyFilters(allOrders, startDate, endDate, statusFilter, sortOrder)
    /\ last' = "statusCardClick"
    /\ outcome' = NoOutcome
    /\ arrival' = NoArrival
    /\ UNCHANGED overtaken
    /\ UNCHANGED <<token, allOrders, loading, startDate, endDate, sortOrder,
                   fetching, mutating, timers, notOrders>>

\* The All Orders card (lines 180, 211-214).
allOrdersCardClick ==
    /\ userInput
    /\ ~loading
    /\ Len(allOrders) > 0
    /\ statusFilter' = ""
    /\ orders' = applyFilters(allOrders, startDate, endDate, statusFilter, sortOrder)
    /\ last' = "allOrdersCardClick"
    /\ outcome' = NoOutcome
    /\ arrival' = NoArrival
    /\ UNCHANGED overtaken
    /\ UNCHANGED <<token, allOrders, loading, startDate, endDate, sortOrder,
                   fetching, mutating, timers, notOrders>>

\* handleQuickDateFilter (lines 109-148): the two date cells are written and
\* a zero-delay timer is armed with applyFilters of the current render.
handleQuickDateFilter ==
    /\ userInput
    /\ Len(timers) < MaxTimers
    /\ \E filter \in QuickChoices :
         /\ startDate' = quickDates(filter).start
         /\ endDate' = quickDates(filter).end
    /\ timers' = Append(timers, [allOrders |-> allOrders, startDate |-> startDate,
                                 endDate |-> endDate, statusFilter |-> statusFilter,
                                 sortOrder |-> sortOrder])
    /\ last' = "handleQuickDateFilter"
    /\ outcome' = NoOutcome
    /\ arrival' = NoArrival
    /\ UNCHANGED overtaken
    /\ UNCHANGED <<token, allOrders, orders, loading, statusFilter, sortOrder,
                   fetching, mutating, notOrders>>

\* The timer of lines 145-147 fires: applyFilters with the values of the
\* render that armed it.
quickFilterTimer ==
    /\ screen = "orders"
    /\ Len(timers) > 0
    /\ LET c == Head(timers)
       IN  orders' = applyFilters(c.allOrders, c.startDate, c.endDate,
                                  c.statusFilter, c.sortOrder)
    /\ timers' = Tail(timers)
    /\ last' = "quickFilterTimer"
    /\ outcome' = NoOutcome
    /\ arrival' = NoArrival
    /\ UNCHANGED overtaken
    /\ UNCHANGED <<token, allOrders, loading, startDate, endDate, statusFilter,
                   sortOrder, fetching, mutating, notOrders>>

\* toggleSortOrder (lines 150-162) and the effect on sortOrder it triggers
\* (lines 165-169): the list is re-sorted, then, when the store is not
\* empty, replaced by applyFilters of the new render.
toggleSortOrder ==
    /\ userInput
    /\ LET newSortOrder == IF sortOrder = "desc" THEN "asc" ELSE "desc"
       IN  /\ sortOrder' = newSortOrder
           /\ orders' = IF Len(allOrders) > 0
                        THEN applyFilters(allOrders, startDate, endDate,
                                          statusFilter, newSortOrder)
                        ELSE SortByDate(orders, newSortOrder)
    /\ last' = "toggleSortOrder"
    /\ outcome' = NoOutcome
    /\ arrival' = NoArrival
    /\ UNCHANGED overtaken
    /\ UNCHANGED <<token, allOrders, loading, startDate, endDate, statusFilter,
                   fetching, mutating, timers, notOrders>>

\* The status summary (lines 180-223) is rendered.
summaryShown == ~loading /\ Len(allOrders) > 0

\* The count of a summary card taken over the displayed list.
summaryCount_displayed(status) ==
    LET isStatus(o) == o.status = status
    IN  Len(SelectSeq(orders, isStatus))

\* The count a summary card shows (line 183) and its percentage (line 203).
summaryCount(status) ==
    LET isStatus(o) == o.status = status
    IN  Len(SelectSeq(allOrders, isStatus))

summaryPercent(status) == roundPercent(summaryCount(status), Len(allOrders))

NextOrders ==
    \/ tokenChanges
    \/ fetchAllOrdersSuccess
    \/ fetchAllOrdersFailure
    \/ statusHandler
    \/ statusHandlerSuccess
    \/ statusHandlerFailure
    \/ statusHandlerRejected
    \/ setStartDate
    \/ setEndDate
    \/ setStatusFilter
    \/ applyFiltersClick
    \/ resetFilters
    \/ statusCardClick
    \/ allOrdersCardClick
    \/ handleQuickDateFilter
    \/ quickFilterTimer
    \/ toggleSortOrder

InitOrders ==
    Init /\ screen = "orders" /\ ~tracing /\ now = ScreenNow /\ tz \in ScreenZones

SpecOrders == InitOrders /\ [][NextOrders]_vars

\* The orders screen with the issue order of its list requests recorded.
InitRace ==
    Init /\ screen = "orders" /\ tracing /\ now = ScreenNow /\ tz \in ScreenZones

SpecRace == InitRace /\ [][NextOrders]_vars

-----------------------------------------------------------------------------
(* Claims about the orders list                                             *)

\* The handlers that change a filter criterion or the sort direction and
\* publish a list, named by their last step.
CriteriaChanges == {"applyFilters", "statusCardClick", "allOrdersCardClick",
                    "quickFilterTimer", "toggleSortOrder"}

\* C1: after Apply Filters, a quick preset (once its timer has fired), a
\* click on a status card or on All Orders, or the sort toggle, the displayed
\* list is the store filtered by the current startDate, endDate and
\* statusFilter and sorted by the current sortOrder.
C1_ViewFollowsCriteria ==
    (screen = "orders" /\ last \in CriteriaChanges)
        => orders = applyFilters(allOrders, startDate, endDate, statusFilter, sortOrder)

\* C2: when a list response replaces the store, the displayed list is the new
\* store filtered by the current criteria and sorted by the current
\* sortOrder.
C2_FetchRepublishesView ==
    (screen = "orders" /\ last = "fetchAllOrdersSuccess")
        => orders = applyFilters(allOrders, startDate, endDate, statusFilter, sortOrder)

-----------------------------------------------------------------------------
(* Dashboard.jsx: handlers                                                  *)

\* Bodies of the same endpoint as the dashboard may receive them: it sorts
\* them itself (line 161), so they need not be in date order.
DashResponses == OrderResponses \cup {<<OrderC, OrderA>>}

notDash == <<screen, tz, now, tracing, calc, ordersVars, reviewVars>>

\* processData (lines 87-111) called with ordersData by a render whose
\* closure holds range, sd, ed: nothing on an empty argument, else the three
\* published aggregates are replaced.
processData(ordersData, range, sd, ed) ==
    IF Len(ordersData) = 0
    THEN UNCHANGED <<stats, chartData, statusData, proc>>
    ELSE LET filteredOrders == filterOrdersByDateRange(ordersData, range, sd, ed)
         IN  /\ stats' = computeStats(filteredOrders)
             /\ chartData' = prepareChartData(filteredOrders, range)
             /\ statusData' = prepareStatusData(filteredOrders)
             /\ proc' = [ran |-> TRUE, data |-> ordersData, range |-> range,
                         sd |-> sd, ed |-> ed]

\* The array object ordersData after processData: prepareChartData sorts its
\* argument in place (line 161), and that argument is ordersData itself when
\* filterOrdersByDateRange returned it unfiltered.
afterProcessData(ordersData, range, sd, ed) ==
    IF Len(ordersData) # 0 /\ ~rangeIsBounded(range, sd, ed)
    THEN SortByDate(ordersData, "asc")
    ELSE ordersData

\* The token prop changes and the effect of lines 271-273 runs fetchOrders of
\* the new render up to its await (lines 66-71).
dash_tokenChanges ==
    /\ screen = "dashboard"
    /\ Len(dash_fetches) < MaxDashFetches
    /\ \E t \in Tokens \ {token} :
         /\ token' = t
         /\ IF t = ""
            THEN UNCHANGED <<dash_loading, dash_fetches>>
            ELSE /\ dash_loading' = TRUE
                 /\ dash_fetches' = Append(dash_fetches,
                        [range |-> dateRange, sd |-> dash_startDate, ed |-> dash_endDate])
    /\ last' = "tokenChanges"
    /\ outcome' = NoOutcome
    /\ UNCHANGED <<dash_orders, dateRange, dash_startDate, dash_endDate, stats,
                   chartData, statusData, proc, notDash>>

\* A list response with success = true (lines 72-75, 82-84): the body becomes
\* the store and processData of the render that started the request runs.
fetchOrdersSuccess ==
    /\ screen = "dashboard"
    /\ \E i \in DOMAIN dash_fetches, body \in DashResponses :
         LET c == dash_fetches[i]
         IN  /\ processData(body, c.range, c.sd, c.ed)
             /\ dash_orders' = afterProcessData(body, c.range, c.sd, c.ed)
             /\ dash_fetches' = RemoveAt(dash_fetches, i)
    /\ dash_loading' = FALSE
    /\ last' = "fetchOrdersSuccess"
    /\ outcome' = NoOutcome
    /\ UNCHANGED <<token, dateRange, dash_startDate, dash_endDate, notDash>>

\* A list response with success = false, or a rejected request (lines 76-84).
fetchOrdersFailure ==
    /\ screen = "dashboard"
    /\ \E i \in DOMAIN dash_fetches : dash_fetches' = RemoveAt(dash_fetches, i)
    /\ dash_loading' = FALSE
    /\ last' = "fetchOrdersFailure"
    /\ outcome' = Notified("error")
    /\ UNCHANGED <<token, dash_orders, dateRange, dash_startDate, dash_endDate,
                   stats, chartData, statusData, proc, notDash>>

\* handleDateRangeChange (lines 242-260) and, when dateRange changed and the
\* store is not empty, the effect of lines 276-280 with the new render's
\* values.
handleDateRangeChange ==
    /\ screen = "dashboard"
    /\ \E range \in {"week", "month", "year", "custom"} :
         LET defaults == range = "custom" /\ (dash_startDate = <<>> \/ dash_endDate = <<>>)
             sd == IF range # "custom" THEN <<>>
                   ELSE IF defaults THEN ToISODate(SetDate(now, GetDate(now) - 30))
                   ELSE dash_startDate
             ed == IF range # "custom" THEN <<>>
                   ELSE IF defaults THEN ToISODate(now)
                   ELSE dash_endDate
         IN  /\ dateRange' = range
             /\ dash_startDate' = sd
             /\ dash_endDate' = ed
             /\ IF range # dateRange
                THEN /\ processData(dash_orders, range, sd, ed)
                     /\ dash_orders' = afterProcessData(dash_orders, range, sd, ed)
                ELSE UNCHANGED <<stats, chartData, statusData, proc, dash_orders>>
    /\ last' = "handleDateRangeChange"
    /\ outcome' = NoOutcome
    /\ UNCHANGED <<token, dash_loading, dash_fetches, notDash>>

\* onChange of the two custom date inputs, rendered for the custom range
\* (lines 377, 386, 397).
dash_setStartDate ==
    /\ screen = "dashboard"
    /\ dateRange = "custom"
    /\ \E v \in StartInputs \ {dash_startDate} : dash_startDate' = v
    /\ last' = "setStartDate"
    /\ outcome' = NoOutcome
    /\ UNCHANGED <<token, dash_orders, dash_loading, dateRange, dash_endDate, stats,
                   chartData, statusData, dash_fetches, proc, notDash>>

dash_setEndDate ==
    /\ screen = "dashboard"
    /\ dateRange = "custom"
    /\ \E v \in EndInputs \ {dash_endDate} : dash_endDate' = v
    /\ last' = "setEndDate"
    /\ outcome' = NoOutcome
    /\ UNCHANGED <<token, dash_orders, dash_loading, dateRange, dash_startDate, stats,
                   chartData, statusData, dash_fetches, proc, notDash>>

\* applyCustomDateFilter (lines 262-268, 377, 403): processData of the
\* current render with both dates, a warning toast otherwise.
applyCustomDateFilter ==
    /\ screen = "dashboard"
    /\ dateRange = "custom"
    /\ IF dash_startDate # <<>> /\ dash_endDate # <<>>
       THEN /\ processData(dash_orders, dateRange, dash_startDate, dash_endDate)
            /\ dash_orders' = afterProcessData(dash_orders, dateRange,
                                               dash_startDate, dash_endDate)
            /\ last' = "applyCustomDateFilter"
            /\ outcome' = NoOutcome
       ELSE /\ UNCHANGED <<stats, chartData, statusData, proc, dash_orders>>
            /\ last' = "applyCustomDateFilterWarning"
            /\ outcome' = Notified("warning")
    /\ UNCHANGED <<token, dash_loading, dateRange, dash_startDate, dash_endDate,
                   dash_fetches, notDash>>

\* The percentages of the Pending and Delivered cards (lines 441, 449).
pendingPercent ==
    IF stats.totalOrders # 0
    THEN roundPercent(stats.pendingOrders, stats.totalOrders)
    ELSE 0

deliveredPercent ==
    IF stats.totalOrders # 0
    THEN roundPercent(stats.deliveredOrders, stats.totalOrders)
    ELSE 0

NextDash ==
    \/ dash_tokenChanges
    \/ fetchOrdersSuccess
    \/ fetchOrdersFailure
    \/ handleDateRangeChange
    \/ dash_setStartDate
    \/ dash_setEndDate
    \/ applyCustomDateFilter

InitDash == Init /\ screen = "dashboard" /\ now = ScreenNow /\ tz \in ScreenZones

SpecDash == InitDash /\ [][NextDash]_vars

-----------------------------------------------------------------------------
(* Claims about the dashboard aggregates                                    *)

\* C3: once no fetch is outstanding, after a fetch completion, a date-range
\* selection or an applied custom range, the published stats, chart series
\* and status counts are the aggregation of the current store filtered by
\* the currently selected dateRange with startDate and endDate.
C3_DashboardFollowsRange ==
    (/\ screen = "dashboard"
     /\ dash_fetches = <<>>
     /\ Len(dash_orders) > 0
     /\ \/ last \in {"fetchOrdersSuccess", "applyCustomDateFilter"}
        \/ (last = "handleDateRangeChange" /\ dateRange # "custom"))
        => LET current == filterOrdersByDateRange(dash_orders, dateRange,
                                                  dash_startDate, dash_endDate)
           IN  /\ stats = computeStats(current)
               /\ chartData = prepareChartData(current, dateRange)
               /\ statusData = prepareStatusData(current)

\* C10: whenever the store is empty, or the date-filtered collection of the
\* last aggregation is, the published avgOrderValue and the two published
\* percentages are 0.
C10_ZeroDivisionSafe ==
    (/\ screen = "dashboard"
     /\ \/ Len(dash_orders) = 0
        \/ (proc.ran /\ proc.data = dash_orders
              /\ Len(filterOrdersByDateRange(proc.data, proc.range, proc.sd, proc.ed)) = 0))
        => (stats.avgOrderValue = 0 /\ pendingPercent = 0 /\ deliveredPercent = 0)

-----------------------------------------------------------------------------
(* Reviews (unnamed/part_000)                                               *)

\* Text is a sequence of character codes: 1, 2, 3 are the letters a, b, c and
\* 33, 34, 35 their capitals.  Missing stands for an absent user or product
\* (review.user?.name is undefined).
Missing == <<0>>

\* String.prototype.toLowerCase
toLowerCase(str) == [i \in DOMAIN str |-> IF str[i] > 32 THEN str[i] - 32 ELSE str[i]]

\* String.prototype.includes
includes(str, sub) ==
    \E k \in 0..(Len(str) - Len(sub)) : SubSeq(str, k + 1, k + Len(sub)) = sub

\* a.localeCompare(b) on lower-case text, as the sign of its result.
localeCompare(a, b) ==
    LET n == IF Len(a) < Len(b) THEN Len(a) ELSE Len(b)
        diff == {i \in 1..n : a[i] # b[i]}
        k == CHOOSE i \in diff : \A j \in diff : i <= j
    IN  IF diff # {} THEN (IF a[k] < b[k] THEN -1 ELSE 1)
        ELSE IF Len(a) < Len(b) THEN -1
        ELSE IF Len(a) > Len(b) THEN 1
        ELSE 0

\* review.user?.name && ..., (a.user?.name || ''): an absent or empty name
\* is falsy and reads as ''.
nameOf(field) == IF field = Missing THEN <<>> ELSE field

\* The predicate of filteredReviews (lines 89-96).
matchesSearch(review, term) ==
    LET searchLower == toLowerCase(term)
    IN  \/ (nameOf(review.user) # <<>> /\ includes(toLowerCase(review.user), searchLower))
        \/ (nameOf(review.product) # <<>> /\ includes(toLowerCase(review.product), searchLower))
        \/ includes(toLowerCase(review.comment), searchLower)

\* The callback of lines 89-96 run on one review: whether it throws, and
\* its result when it does not.  It throws a TypeError when the first two
\* disjuncts are falsy and review.comment is undefined, so that line 94 calls
\* toLowerCase of undefined.
searchOutcome(review, term) ==
    LET searchLower == toLowerCase(term)
        byName == \/ (nameOf(review.user) # <<>>
                        /\ includes(toLowerCase(review.user), searchLower))
                  \/ (nameOf(review.product) # <<>>
                        /\ includes(toLowerCase(review.product), searchLower))
    IN  IF byName THEN [threw |-> FALSE, kept |-> TRUE]
        ELSE IF review.comment = Missing THEN [threw |-> TRUE, kept |-> FALSE]
        ELSE [threw |-> FALSE, kept |-> includes(toLowerCase(review.comment), searchLower)]

filteredReviews == LET keep(r) == matchesSearch(r, searchTerm) IN SelectSeq(reviews, keep)

\* The comparator with the rating branch ascending whatever the direction.
reviewCmp_ratingAscending(a, b, by, dir) ==
    LET x == IF dir = "asc" THEN a ELSE b
        y == IF dir = "asc" THEN b ELSE a
    IN  CASE by = "date" -> (IF Lt(x.date, y.date) THEN -1 ELSE IF Lt(y.date, x.date) THEN 1 ELSE 0)
          [] by = "rating" -> (IF a.rating < b.rating THEN -1 ELSE IF a.rating > b.rating THEN 1 ELSE 0)
          [] by = "productName" ->
                localeCompare(toLowerCase(nameOf(x.product)), toLowerCase(nameOf(y.product)))
          [] by = "userName" ->
                localeCompare(toLowerCase(nameOf(x.user)), toLowerCase(nameOf(y.user)))
          [] OTHER -> 0

\* The comparator of sortedReviews (lines 98-115), as the sign of its result.
reviewCmp(a, b, by, dir) ==
    LET x == IF dir = "asc" THEN a ELSE b
        y == IF dir = "asc" THEN b ELSE a
    IN  CASE by = "date" -> (IF Lt(x.date, y.date) THEN -1 ELSE IF Lt(y.date, x.date) THEN 1 ELSE 0)
          [] by = "rating" -> (IF x.rating < y.rating THEN -1 ELSE IF x.rating > y.rating THEN 1 ELSE 0)
          [] by = "productName" ->
                localeCompare(toLowerCase(nameOf(x.product)), toLowerCase(nameOf(y.product)))
          [] by = "userName" ->
                localeCompare(toLowerCase(nameOf(x.user)), toLowerCase(nameOf(y.user)))
          [] OTHER -> 0

\* The descending list made by reversing the ascending one.
sortReviews_reversedForDesc(list, by, dir) ==
    LET n == Len(list)
        rank(i) == Cardinality({j \in 1..n :
                        \/ reviewCmp(list[j], list[i], by, "asc") < 0
                        \/ (reviewCmp(list[j], list[i], by, "asc") = 0 /\ j < i)}) + 1
        asc == [k \in 1..n |-> list[CHOOSE i \in 1..n : rank(i) = k]]
    IN  IF dir = "asc" THEN asc ELSE Reverse(asc)

\* [...list].sort(comparator): the stable sort of a copy.
sortReviews(list, by, dir) ==
    LET n == Len(list)
        rank(i) == Cardinality({j \in 1..n :
                        \/ reviewCmp(list[j], list[i], by, dir) < 0
                        \/ (reviewCmp(list[j], list[i], by, dir) = 0 /\ j < i)}) + 1
    IN  [k \in 1..n |-> list[CHOOSE i \in 1..n : rank(i) = k]]

sortedReviews == sortReviews(filteredReviews, sortBy, rev_sortOrder)

ReviewA == [id |-> 1, date |-> At(2024, 3, 1, 9, 0), rating |-> 5,
            user |-> <<33, 2>>, product |-> <<3>>, comment |-> <<1, 1>>]
ReviewB == [id |-> 2, date |-> At(2024, 3, 3, 9, 0), rating |-> 2,
            user |-> Missing, product |-> <<34>>, comment |-> <<3, 1>>]
ReviewC == [id |-> 3, date |-> At(2024, 3, 2, 9, 0), rating |-> 2,
            user |-> <<1>>, product |-> Missing, comment |-> <<>>]

\* Bodies of successful /api/review/all responses, and search texts typed.
ReviewResponses == {<<>>, <<ReviewA, ReviewB>>, <<ReviewA, ReviewB, ReviewC>>}
SearchInputs == {<<>>, <<2>>, <<35>>}

notReviews == <<screen, tz, now, tracing, token, calc, ordersVars, dashVars>>

\* The response of fetchReviews (lines 30-32, 39-40) with success = true.
fetchReviewsSuccess ==
    /\ screen = "reviews"
    /\ rev_fetching > 0
    /\ \E body \in ReviewResponses : reviews' = body
    /\ rev_loading' = FALSE
    /\ rev_fetching' = rev_fetching - 1
    /\ last' = "fetchReviewsSuccess"
    /\ outcome' = NoOutcome
    /\ UNCHANGED <<searchTerm, sortBy, rev_sortOrder, deletes, notReviews>>

\* The response with success = false, or a rejected request (lines 33-40).
fetchReviewsFailure ==
    /\ screen = "reviews"
    /\ rev_fetching > 0
    /\ rev_loading' = FALSE
    /\ rev_fetching' = rev_fetching - 1
    /\ last' = "fetchReviewsFailure"
    /\ outcome' = Notified("error")
    /\ UNCHANGED <<reviews, searchTerm, sortBy, rev_sortOrder, deletes, notReviews>>

\* handleSearch (lines 67-69).
handleSearch ==
    /\ screen = "reviews"
    /\ token # ""
    /\ \E v \in SearchInputs \ {searchTerm} : searchTerm' = v
    /\ last' = "handleSearch"
    /\ outcome' = NoOutcome
    /\ UNCHANGED <<reviews, rev_loading, sortBy, rev_sortOrder, rev_fetching,
                   deletes, notReviews>>

\* handleSort (lines 71-78); the column headers are rendered with the table
\* (lines 130-137).
handleSort ==
    /\ screen = "reviews"
    /\ ~rev_loading
    /\ Len(sortedReviews) # 0
    /\ \E field \in {"date", "rating", "productName", "userName"} :
         IF sortBy = field
         THEN /\ rev_sortOrder' = (IF rev_sortOrder = "asc" THEN "desc" ELSE "asc")
              /\ UNCHANGED sortBy
         ELSE /\ sortBy' = field
              /\ rev_sortOrder' = "asc"
    /\ last' = "handleSort"
    /\ outcome' = NoOutcome
    /\ UNCHANGED <<reviews, rev_loading, searchTerm, rev_fetching, deletes, notReviews>>

\* handleDelete up to its await (lines 44-53), confirmed, for a displayed
\* review: the request leaves; the continuation keeps this render's reviews.
handleDelete ==
    /\ screen = "reviews"
    /\ ~rev_loading
    /\ Len(deletes) < MaxDeletes
    /\ \E r \in Range(sortedReviews) :
         deletes' = Append(deletes, [reviewId |-> r.id, reviews |-> reviews])
    /\ last' = "handleDelete"
    /\ outcome' = NoOutcome
    /\ UNCHANGED <<reviews, rev_loading, searchTerm, sortBy, rev_sortOrder,
                   rev_fetching, notReviews>>

\* handleDelete with the confirmation declined (lines 45-47).
handleDeleteDeclined ==
    /\ screen = "reviews"
    /\ ~rev_loading
    /\ Len(sortedReviews) # 0
    /\ last' = "handleDeleteDeclined"
    /\ outcome' = NoOutcome
    /\ UNCHANGED <<reviewVars, notReviews>>

\* A delete that would filter the store as it is when the response arrives
\* (a functional update of setReviews).
handleDeleteSuccess_fromStore ==
    /\ screen = "reviews"
    /\ \E i \in DOMAIN deletes :
         LET c == deletes[i]
             others(review) == review.id # c.reviewId
         IN  /\ reviews' = SelectSeq(reviews, others)
             /\ deletes' = RemoveAt(deletes, i)
    /\ last' = "handleDeleteSuccess"
    /\ outcome' = Notified("success")
    /\ UNCHANGED <<rev_loading, searchTerm, sortBy, rev_sortOrder, rev_fetching,
                   notReviews>>

\* The delete response says success (lines 55-57): setReviews with the
\* closure's reviews less the deleted one.
handleDeleteSuccess ==
    /\ screen = "reviews"
    /\ \E i \in DOMAIN deletes :
         LET c == deletes[i]
             others(review) == review.id # c.reviewId
         IN  /\ reviews' = SelectSeq(c.reviews, others)
             /\ deletes' = RemoveAt(deletes, i)
    /\ last' = "handleDeleteSuccess"
    /\ outcome' = Notified("success")
    /\ UNCHANGED <<rev_loading, searchTerm, sortBy, rev_sortOrder, rev_fetching,
                   notReviews>>

\* The delete response says success = false, or the request is rejected
\* (lines 58-64).
handleDeleteFailure ==
    /\ screen = "reviews"
    /\ \E i \in DOMAIN deletes : deletes' = RemoveAt(deletes, i)
    /\ last' = "handleDeleteFailure"
    /\ outcome' = Notified("error")
    /\ UNCHANGED <<reviews, rev_loading, searchTerm, sortBy, rev_sortOrder,
                   rev_fetching, notReviews>>

NextReviews ==
    \/ fetchReviewsSuccess
    \/ fetchReviewsFailure
    \/ handleSearch
    \/ handleSort
    \/ handleDelete
    \/ handleDeleteDeclined
    \/ handleDeleteSuccess
    \/ handleDeleteFailure

InitReviews == Init /\ screen = "reviews" /\ now = ScreenNow /\ tz \in ScreenZones

SpecReviews == InitReviews /\ [][NextReviews]_vars

-----------------------------------------------------------------------------
(* The review search applied to one review and one search text              *)

\* Reviews as the endpoint may deliver them: user, product and comment each
\* present, empty or absent.
SearchReviews ==
    {[id |-> 1, date |-> At(2024, 3, 1, 9, 0), rating |-> 5,
      user |-> u, product |-> p, comment |-> c] :
        u \in {Missing, <<>>, <<33, 2>>},
        p \in {Missing, <<3>>, <<34, 3>>},
        c \in {Missing, <<>>, <<1, 1>>, <<35, 2>>}}

SearchTexts == {<<>>, <<2>>, <<35>>, <<1, 1>>}

CalcSearch ==
    /\ screen = "search"
    /\ calc = NoCalc
    /\ \E review \in SearchReviews, term \in SearchTexts :
         calc' = [NoCalc EXCEPT !.fn = "filteredReviews", !.arg = term,
                    !.data = <<review>>,
                    !.out = searchOutcome(review, term)]
    /\ last' = "filteredReviews"
    /\ outcome' = NoOutcome
    /\ UNCHANGED <<screen, tz, now, tracing, token, ordersVars, dashVars, reviewVars>>

NextSearch == CalcSearch

InitSearch ==
    Init /\ screen = "search" /\ token = "t1" /\ now = ScreenNow /\ tz \in ScreenZones

SpecSearch == InitSearch /\ [][NextSearch]_vars

\* A field of a review as text: the empty string when it is absent.
TextOf(field) == IF field = Missing THEN <<>> ELSE field

\* C15: the search keeps a review iff the lower-cased search text is a
\* substring of the lower-cased user name, product name or comment, an
\* absent field counting as the empty string; it never fails.
C15_SearchNeverFails ==
    calc.fn = "filteredReviews" =>
        LET review == calc.data[1]
            searchLower == toLowerCase(calc.arg)
        IN  /\ ~calc.out.threw
            /\ calc.out.kept <=> (\/ includes(toLowerCase(TextOf(review.user)), searchLower)
                                   \/ includes(toLowerCase(TextOf(review.product)), searchLower)
                                   \/ includes(toLowerCase(TextOf(review.comment)), searchLower))

-----------------------------------------------------------------------------
(* The sorts applied to one list each                                       *)

\* Reviews to sort: two with the same rating, two whose user names differ
\* in case only, one without product and one without user.
SortReviews ==
    {ReviewA, ReviewB, ReviewC,
     [id |-> 4, date |-> At(2024, 3, 4, 9, 0), rating |-> 4,
      user |-> <<1, 2>>, product |-> <<1>>, comment |-> <<2>>]}

\* Longest list of the sorting runs.
MaxSortLen == 3

SortInputs ==
    UNION {{s \in [1..n -> SortReviews] : \A i, j \in 1..n : i # j => s[i] # s[j]}
            : n \in 0..MaxSortLen}

SortKeys == {"date", "rating", "productName", "userName"}

\* [...filteredReviews].sort (lines 98-115) on one list for one key, in both
\* directions, and each direction applied to the result of the other.
CalcSortReviews ==
    /\ screen = "sorting"
    /\ calc = NoCalc
    /\ \E xs \in SortInputs, by \in SortKeys :
         calc' = [NoCalc EXCEPT !.fn = "sortedReviews", !.arg = by, !.data = xs,
                    !.out = [asc |-> sortReviews(xs, by, "asc"),
                             desc |-> sortReviews(xs, by, "desc"),
                             ascOfDesc |-> sortReviews(sortReviews(xs, by, "desc"), by, "asc"),
                             descOfAsc |-> sortReviews(sortReviews(xs, by, "asc"), by, "desc")]]
    /\ last' = "sortedReviews"
    /\ outcome' = NoOutcome
    /\ UNCHANGED <<screen, tz, now, tracing, token, ordersVars, dashVars, reviewVars>>

\* The sort of the orders screen (lines 86-93, 156-160) likewise.
CalcSortOrders ==
    /\ screen = "sorting"
    /\ calc = NoCalc
    /\ \E xs \in AggInputs :
         calc' = [NoCalc EXCEPT !.fn = "sortOrders", !.arg = "date", !.data = xs,
                    !.out = [asc |-> SortByDate(xs, "asc"),
                             desc |-> SortByDate(xs, "desc"),
                             ascOfDesc |-> SortByDate(SortByDate(xs, "desc"), "asc"),
                             descOfAsc |-> SortByDate(SortByDate(xs, "asc"), "desc")]]
    /\ last' = "sortOrders"
    /\ outcome' = NoOutcome
    /\ UNCHANGED <<screen, tz, now, tracing, token, ordersVars, dashVars, reviewVars>>

NextSorting == CalcSortReviews \/ CalcSortOrders

InitSorting ==
    Init /\ screen = "sorting" /\ token = "t1" /\ now = ScreenNow /\ tz \in ScreenZones

SpecSorting == InitSorting /\ [][NextSorting]_vars

\* The sort key of a record: the date, the rating, or the lower-cased name
\* (the empty string when absent).
KeyOf(x, by) ==
    CASE by = "date" -> x.date
      [] by = "rating" -> x.rating
      [] by = "productName" -> toLowerCase(TextOf(x.product))
      [] by = "userName" -> toLowerCase(TextOf(x.user))

KeysDistinct ==
    \A i, j \in DOMAIN calc.data :
        i # j => KeyOf(calc.data[i], calc.arg) # KeyOf(calc.data[j], calc.arg)

-----------------------------------------------------------------------------
(* Any one of the three pages                                               *)

Next == NextOrders \/ NextDash \/ NextReviews

Spec == (InitOrders \/ InitDash \/ InitReviews) /\ [][Next]_vars

-----------------------------------------------------------------------------
(* Claims about the three pages                                             *)

\* The filter, sort, date-range and aggregation operations of the three
\* pages, named by their last step.
ProjectionOps == {"applyFilters", "resetFilters", "statusCardClick", "allOrdersCardClick",
                  "handleQuickDateFilter", "quickFilterTimer", "toggleSortOrder",
                  "setStartDate", "setEndDate", "setStatusFilter",
                  "handleDateRangeChange", "applyCustomDateFilter",
                  "applyCustomDateFilterWarning", "handleSearch", "handleSort"}

\* C4: filtering, sorting and aggregation never change a store: a filter,
\* sort, date-range or aggregation operation leaves allOrders, the
\* dashboard's orders and reviews as they were, and the aggregation a fetch
\* completion runs leaves the dashboard's store as the response delivered it
\* (same records, same order).
C4_StoreNotMutated ==
    [][/\ last' \in ProjectionOps
            => (allOrders' = allOrders /\ dash_orders' = dash_orders /\ reviews' = reviews)
       /\ (last' = "fetchOrdersSuccess" /\ Len(dash_orders') > 0)
            => dash_orders' = proc'.data]_vars

\* The orders of s with the given status, counted by position.
CountOf(s, status) == Cardinality({i \in DOMAIN s : s[i].status = status})

\* p is the integer nearest to 100 * c / t (a half rounding up), t > 0.
IsRounded(p, c, t) == (2 * t * p) - t <= 200 * c /\ 200 * c < (2 * t * p) + t

\* The orders of s that pass the status axis alone.
OnStatusAxis(s) ==
    LET passes(o) == statusFilter = "" \/ o.status = statusFilter
    IN  SelectSeq(s, passes)

\* C6 (orders screen): after Apply Filters with exactly one of startDate and
\* endDate set, every order of the store passes the date axis: the list is
\* the store filtered by status alone, sorted.
C6_OrdersHalfRange ==
    (/\ screen = "orders"
     /\ last = "applyFilters"
     /\ (startDate = <<>>) # (endDate = <<>>))
        => orders = SortByDate(OnStatusAxis(allOrders), sortOrder)

C9_OrdersSummary ==
    (screen = "orders" /\ summaryShown)
        => \A k \in DOMAIN statusOptions :
              /\ summaryCount(statusOptions[k]) = CountOf(allOrders, statusOptions[k])
              /\ IsRounded(summaryPercent(statusOptions[k]),
                           CountOf(allOrders, statusOptions[k]), Len(allOrders))

\* C9 as amended: the orders-screen part, and the dashboard's orders-by-status
\* series counts each status over the orders inside the date range of the
\* aggregation that published it.
C9_StatusSummary ==
    /\ C9_OrdersSummary
    /\ (screen = "dashboard" /\ statusData.set)
            => \A k \in DOMAIN statusOptions :
                  statusData.data[k] =
                      CountOf(filterOrdersByDateRange(proc.data, proc.range, proc.sd, proc.ed),
                              statusOptions[k])

\* The summary is shown while a status filter hides part of the store.
C9_Witness ==
    /\ screen = "orders"
    /\ summaryShown
    /\ last = "applyFilters"
    /\ statusFilter # ""
    /\ Len(orders) > 0
    /\ Len(orders) < Len(allOrders)

\* C9 as stated: the orders-screen part, and the dashboard's series counts
\* each status over the whole store, whatever date range is active.
C9_StatusSummaryUnfiltered ==
    /\ C9_OrdersSummary
    /\ (/\ screen = "dashboard"
        /\ statusData.set
        /\ Len(dash_orders) > 0
        /\ last \in {"fetchOrdersSuccess", "handleDateRangeChange", "applyCustomDateFilter"})
            => \A k \in DOMAIN statusOptions :
                  statusData.data[k] = CountOf(dash_orders, statusOptions[k])

\* C17: in the published view records with equal sort keys stand in the
\* order they have in the store, in both directions, on the orders screen
\* (by date) and on the reviews screen (by the selected key); and in
\* ascending order by product or user name the reviews without that name
\* (keyed as the empty string) come first.
C17_StableSort ==
    /\ screen = "orders" =>
            \A i, j \in DOMAIN orders :
                (/\ i < j
                 /\ orders[i].date = orders[j].date
                 /\ \E k \in DOMAIN allOrders : allOrders[k] = orders[i]
                 /\ \E k \in DOMAIN allOrders : allOrders[k] = orders[j])
                    => PositionOf(allOrders, orders[i].id) < PositionOf(allOrders, orders[j].id)
    /\ screen = "reviews" =>
            /\ \A i, j \in DOMAIN sortedReviews :
                  (i < j /\ KeyOf(sortedReviews[i], sortBy) = KeyOf(sortedReviews[j], sortBy))
                    => PositionOf(reviews, sortedReviews[i].id)
                         < PositionOf(reviews, sortedReviews[j].id)
            /\ (rev_sortOrder = "asc" /\ sortBy \in {"productName", "userName"}) =>
                  \A i, j \in DOMAIN sortedReviews :
                      (i < j /\ KeyOf(sortedReviews[j], sortBy) = <<>>)
                        => KeyOf(sortedReviews[i], sortBy) = <<>>

\* By rating, descending, the two reviews rated 2 stand in store order
\* behind the one rated 5.
C17_Witness ==
    /\ screen = "reviews"
    /\ sortBy = "rating"
    /\ rev_sortOrder = "desc"
    /\ searchTerm = <<>>
    /\ reviews = <<ReviewA, ReviewB, ReviewC>>
    /\ sortedReviews = <<ReviewA, ReviewB, ReviewC>>

-----------------------------------------------------------------------------
(* Failures of the collaborator                                             *)

\* C18: a failed list fetch (success = false or a thrown error) on the
\* orders, dashboard or reviews screen leaves the record store and the
\* published view exactly as they were (nothing added, removed or
\* reordered) and ends the loading state, so the screen stays interactive.
C18_FailedFetchKeepsView ==
    [][/\ last' = "fetchAllOrdersFailure" =>
            allOrders' = allOrders /\ orders' = orders /\ loading' = FALSE
       /\ last' = "fetchOrdersFailure" =>
            /\ dash_orders' = dash_orders /\ stats' = stats
            /\ chartData' = chartData /\ statusData' = statusData
            /\ dash_loading' = FALSE
       /\ last' = "fetchReviewsFailure" =>
            /\ reviews' = reviews /\ sortedReviews' = sortedReviews
            /\ rev_loading' = FALSE]_vars

\* A refetch has failed on the orders screen while it was showing records.
C18_Witness ==
    last = "fetchAllOrdersFailure" /\ Len(orders) > 1 /\ ~loading

\* The steps in which a call to the backend ends in failure: a list fetch,
\* a status mutation or a delete whose response says success = false or
\* whose request throws.
CollaboratorFailures == {"fetchAllOrdersFailure", "fetchOrdersFailure",
                         "fetchReviewsFailure", "statusHandlerFailure",
                         "statusHandlerRejected", "handleDeleteFailure"}

\* C19: every collaborator failure is caught at the boundary and surfaced:
\* after a fetch, a status mutation or a delete has failed, an error
\* notification has been raised and no exception has left the handler.
C19_FailuresNotified ==
    last \in CollaboratorFailures =>
        outcome.toast = "error" /\ ~outcome.uncaught

StatusFailures == {"statusHandlerFailure", "statusHandlerRejected"}

-----------------------------------------------------------------------------
(* Overlapping requests                                                     *)

\* C21: overlapping list fetches are last-write-wins by arrival.  When a
\* successful list response has just been applied, the store and the
\* displayed list hold its records, also when a response to a request issued
\* after it had been applied before; the requests still outstanding stay
\* outstanding (none is queued behind it or cancelled).
C21_LastArrivalWins ==
    last = "fetchAllOrdersSuccess" =>
        /\ allOrders = Reverse(arrival.body)
        /\ orders = Reverse(arrival.body)
        /\ Len(overtaken) = fetching

\* Two fetches overlapped and both succeeded; the one issued first resolved
\* last and its records are in the store.
C21_Witness ==
    /\ last = "fetchAllOrdersSuccess"
    /\ arrival.stale
    /\ fetching = 0
    /\ Len(allOrders) > 1

-----------------------------------------------------------------------------
(* Review deletes                                                           *)

\* s without the review whose id is given, the others in place and in order.
Without(s, reviewId) ==
    LET others(review) == review.id # reviewId
    IN  SelectSeq(s, others)

C23_DeletesNotLost ==
    [][last' = "handleDeleteSuccess" =>
          \A r \in Range(reviews') : r \in Range(reviews)]_vars

-----------------------------------------------------------------------------
(* Loading state and the displayed list                                     *)

\* C24: on the orders screen the loading flag is true whenever at least one
\* list fetch is outstanding, so the loading placeholder (line 344) is shown
\* instead of the list while a fetch is in flight.
C24_LoadingWhileFetching ==
    screen = "orders" /\ fetching > 0 => loading

\* C26: on the orders screen the displayed list holds only records of the
\* current store, each at most once, so that in "Showing N of M" N <= M.
C26_DisplayedWithinStore ==
    screen = "orders" =>
        /\ \A i \in DOMAIN orders : orders[i] \in Range(allOrders)
        /\ \A i, j \in DOMAIN orders : orders[i] = orders[j] => i = j
        /\ Len(orders) <= Len(allOrders)

-----------------------------------------------------------------------------
(* Leaving the loading state                                                *)

\* Every network call eventually returns: a list, status or delete request
\* that is outstanding is eventually answered, with success or with failure.
NetworkReturns ==
    /\ WF_vars(fetchAllOrdersSuccess \/ fetchAllOrdersFailure)
    /\ WF_vars(statusHandlerSuccess \/ statusHandlerFailure \/ statusHandlerRejected)
    /\ WF_vars(fetchOrdersSuccess \/ fetchOrdersFailure)
    /\ WF_vars(fetchReviewsSuccess \/ fetchReviewsFailure)
    /\ WF_vars(handleDeleteSuccess \/ handleDeleteFailure)

SpecLive == Spec /\ NetworkReturns

\* C25: each screen eventually leaves Loading.  Whenever the loading flag of
\* the mounted screen is true (initially, and after every fetch attempt,
\* skipped for want of a token or not), it is eventually false.  The reviews
\* screen is left for /login when there is no token (lines 15-18).
C25_LeavesLoading ==
    /\ (screen = "orders" /\ loading) ~> ~loading
    /\ (screen = "dashboard" /\ dash_loading) ~> ~dash_loading
    /\ (screen = "reviews" /\ token # "" /\ rev_loading) ~> ~rev_loading

====
